---- MODULE Spec2Model ----
(***************************************************************************)
(* tensorflow/contrib/learn/python/learn/estimators/dnn.py                 *)
(*                                                                         *)
(* DNNClassifier and DNNRegressor forward their constructor arguments to   *)
(* DNNLinearCombinedClassifier / DNNLinearCombinedRegressor under renamed  *)
(* keys, infer real valued feature columns lazily in _get_train_ops and    *)
(* expose dnn_weights_ / dnn_bias_ as weights_ / bias_.                    *)
(* TensorFlowDNNClassifier and TensorFlowDNNRegressor are the deprecated   *)
(* names: DeprecatedMixin + facade + an sklearn mixin.                     *)
(*                                                                         *)
(* The model holds one estimator object `est` of a chosen class and, next  *)
(* to it, `ref`: an object of the non-deprecated class of the same name    *)
(* built from the same arguments and driven by the same operations.        *)
(***************************************************************************)
EXTENDS Integers, Sequences, FiniteSets, TLC

VARIABLES cls, args, est, ref, input, out, refOut, lastOp, nCalls

vars == <<cls, args, est, ref, input, out, refOut, lastOp, nCalls>>

\* Number of _get_train_ops invocations explored on one object.
MaxCalls == 3

(***************************************************************************)
(* Values                                                                  *)
(***************************************************************************)
None == "None"

\* An optional feature column collection: Python None, or an iterable.
NoCols == [isNone |-> TRUE, items |-> {}]
Cols(S) == [isNone |-> FALSE, items |-> S]

RealValuedColumn(k) == [name |-> k, kind |-> "real"]
SparseColumn(k) == [name |-> k, kind |-> "sparse"]

HiddenUnitsValues == {<<10, 5>>, <<1024, 512, 256>>}
FeatureColumnsValues ==
  {NoCols, Cols({}), Cols({RealValuedColumn("a")}),
   Cols({RealValuedColumn("a"), SparseColumn("b")})}
ModelDirValues == {None, "/tmp/model"}
NClassesValues == {0, 1, 2, 3}
WeightColumnNameValues == {None, "w"}
OptimizerValues == {None, "Adagrad"}
ActivationFnValues == {None, "nn.relu"}
DropoutValues == {None, "0.5"}
GradientClipNormValues == {None, "5.0"}
ConfigValues == {None, "RunConfig"}

\* The arguments of DNNClassifier.__init__.
ClassifierArgs ==
  [hidden_units : HiddenUnitsValues, feature_columns : FeatureColumnsValues,
   model_dir : ModelDirValues, n_classes : NClassesValues,
   weight_column_name : WeightColumnNameValues, optimizer : OptimizerValues,
   activation_fn : ActivationFnValues, dropout : DropoutValues,
   gradient_clip_norm : GradientClipNormValues, config : ConfigValues]

\* The arguments of DNNRegressor.__init__: no n_classes.
RegressorArgs ==
  [hidden_units : HiddenUnitsValues, feature_columns : FeatureColumnsValues,
   model_dir : ModelDirValues,
   weight_column_name : WeightColumnNameValues, optimizer : OptimizerValues,
   activation_fn : ActivationFnValues, dropout : DropoutValues,
   gradient_clip_norm : GradientClipNormValues, config : ConfigValues]

\* The arguments that only pass through the file (they decide nothing in it),
\* and the two settings of them the operation sequences are explored with:
\* the defaults of the signature, and every one of them given.
PassThrough(a) ==
  <<a.hidden_units, a.model_dir, a.optimizer, a.activation_fn, a.dropout,
    a.gradient_clip_norm, a.config>>
PassThroughProfiles ==
  {<<<<10, 5>>, None, None, "nn.relu", None, None, None>>,
   <<<<1024, 512, 256>>, "/tmp/model", "Adagrad", None, "0.5", "5.0",
     "RunConfig">>}

\* Input mappings: feature name -> kind of value (dense Tensor, SparseTensor).
NoFeatures == [k \in {} |-> "dense"]
FeatureMappings ==
  {NoFeatures,
   [k \in {"a"} |-> "dense"],
   [k \in {"a", "w"} |-> "dense"],
   [k \in {"a", "b"} |-> IF k = "b" THEN "sparse" ELSE "dense"],
   [k \in {"a", "b", "w"} |-> IF k = "b" THEN "sparse" ELSE "dense"]}
TargetValues == {"targets"}

\* What the parent does when it is asked to build ops without any feature
\* column is not part of this file: both outcomes are explored.
ParentOutcomes == {"ok", "ValueError"}
OutcomesFor(o) ==
  IF o.self.dnn_feature_columns.isNone THEN ParentOutcomes ELSE {"ok"}

Ok(v) == [ok |-> TRUE, val |-> v]
Err(e) == [ok |-> FALSE, val |-> e]
Ev(name, c) == [ev |-> name, cols |-> c]

(***************************************************************************)
(* Classes of the file and method resolution                               *)
(***************************************************************************)
DNNClassifierBases == <<"DNNLinearCombinedClassifier">>
DNNRegressorBases == <<"DNNLinearCombinedRegressor">>
\* Variant of TensorFlowDNNClassifierBases: the regressor under the
\* classifier's deprecated name.
TensorFlowDNNClassifierBasesRegressor ==
  <<"DeprecatedMixin", "DNNRegressor", "ClassifierMixin">>
TensorFlowDNNClassifierBases ==
  <<"DeprecatedMixin", "DNNClassifier", "ClassifierMixin">>
TensorFlowDNNRegressorBases ==
  <<"DeprecatedMixin", "DNNRegressor", "RegressorMixin">>

Classes ==
  {"DNNClassifier", "DNNRegressor", "TensorFlowDNNClassifier",
   "TensorFlowDNNRegressor"}
ParentClasses == {"DNNLinearCombinedClassifier", "DNNLinearCombinedRegressor"}

Bases(c) ==
  CASE c = "DNNClassifier" -> DNNClassifierBases
    [] c = "DNNRegressor" -> DNNRegressorBases
    [] c = "TensorFlowDNNClassifier" -> TensorFlowDNNClassifierBases
    [] c = "TensorFlowDNNRegressor" -> TensorFlowDNNRegressorBases
    [] OTHER -> <<>>

\* Methods each class body defines.
DNNClassifierMethods == {"__init__", "_get_train_ops", "weights_", "bias_"}
DNNRegressorMethods == {"__init__", "_get_train_ops", "weights_", "bias_"}
TensorFlowDNNClassifierMethods == {}
TensorFlowDNNRegressorMethods == {}
DeprecatedMixinMethods == {"__init__"}
ParentMethods ==
  {"__init__", "_get_train_ops", "evaluate", "predict", "fit",
   "dnn_weights_", "dnn_bias_"}

Methods(c) ==
  CASE c = "DNNClassifier" -> DNNClassifierMethods
    [] c = "DNNRegressor" -> DNNRegressorMethods
    [] c = "TensorFlowDNNClassifier" -> TensorFlowDNNClassifierMethods
    [] c = "TensorFlowDNNRegressor" -> TensorFlowDNNRegressorMethods
    [] c = "DeprecatedMixin" -> DeprecatedMixinMethods
    [] c \in ParentClasses -> ParentMethods
    [] OTHER -> {}

\* Method resolution order: the class, then the linearizations of its bases
\* (no two bases of this file share an ancestor other than object).
RECURSIVE MROFrom(_)
MROFrom(bs) ==
  IF bs = <<>> THEN <<>>
  ELSE <<Head(bs)>> \o MROFrom(Bases(Head(bs))) \o MROFrom(Tail(bs))
MRO(c) == <<c>> \o MROFrom(Bases(c))

\* The classes of c's MRO that define m, in resolution order.
Providers(c, m) == SelectSeq(MRO(c), LAMBDA k : m \in Methods(k))
Resolve(c, m) == IF Providers(c, m) = <<>> THEN None ELSE Head(Providers(c, m))
\* super(k, self).m for an object of class c.
RECURSIVE After(_, _)
After(s, k) ==
  IF s = <<>> THEN <<>> ELSE IF Head(s) = k THEN Tail(s) ELSE After(Tail(s), k)
SuperResolve(c, k, m) ==
  LET rest == After(Providers(c, m), k)
  IN IF rest = <<>> THEN None ELSE Head(rest)

(***************************************************************************)
(* Construction                                                            *)
(***************************************************************************)
\* An estimator object: the keyword arguments its parent's __init__ received,
\* the fields the parent keeps, whether training has run, and the history
\* counters the properties read (deprecation notices logged, calls of
\* infer_real_valued_columns, assignments to _dnn_feature_columns).
Unbuilt ==
  [pc |-> "start", kwargs |-> [unset |-> TRUE], self |-> [unset |-> TRUE],
   trained |-> FALSE, notices |-> 0, inferCalls |-> 0, fcWrites |-> 0]

Outcome(o, r, tr) == [obj |-> o, result |-> r, trace |-> tr]
NoOutcome == [result |-> Ok(None), trace |-> <<>>]

\* DNNLinearCombinedClassifier.__init__ / DNNLinearCombinedRegressor.__init__:
\* the class count must exceed 1; every value is stored verbatim.
ParentInit(p, kw, o, tr) ==
  LET tr1 == tr \o <<Ev(p \o ".__init__", kw.dnn_feature_columns)>>
  IN IF p = "DNNLinearCombinedClassifier" /\ "n_classes" \in DOMAIN kw
        /\ kw.n_classes <= 1
     THEN Outcome([o EXCEPT !.pc = "rejected", !.kwargs = kw],
                  Err("ValueError"), tr1)
     ELSE Outcome([o EXCEPT !.pc = "live", !.kwargs = kw, !.self = kw],
                  Ok(None), tr1)

\* Variants of ClassifierInitKwargs: optimizer and activation_fn under each
\* other's key; the class count left at its default; a missing feature
\* column collection replaced by an empty one.
ClassifierInitKwargsSwapped(a) ==
  [model_dir |-> a.model_dir,
   n_classes |-> a.n_classes,
   weight_column_name |-> a.weight_column_name,
   dnn_feature_columns |-> a.feature_columns,
   dnn_optimizer |-> a.activation_fn,
   dnn_hidden_units |-> a.hidden_units,
   dnn_activation_fn |-> a.optimizer,
   dnn_dropout |-> a.dropout,
   gradient_clip_norm |-> a.gradient_clip_norm,
   config |-> a.config]
ClassifierInitKwargsBinary(a) ==
  [model_dir |-> a.model_dir,
   n_classes |-> 2,
   weight_column_name |-> a.weight_column_name,
   dnn_feature_columns |-> a.feature_columns,
   dnn_optimizer |-> a.optimizer,
   dnn_hidden_units |-> a.hidden_units,
   dnn_activation_fn |-> a.activation_fn,
   dnn_dropout |-> a.dropout,
   gradient_clip_norm |-> a.gradient_clip_norm,
   config |-> a.config]
ClassifierInitKwargsEager(a) ==
  [model_dir |-> a.model_dir,
   n_classes |-> a.n_classes,
   weight_column_name |-> a.weight_column_name,
   dnn_feature_columns |->
     IF a.feature_columns.isNone THEN Cols({}) ELSE a.feature_columns,
   dnn_optimizer |-> a.optimizer,
   dnn_hidden_units |-> a.hidden_units,
   dnn_activation_fn |-> a.activation_fn,
   dnn_dropout |-> a.dropout,
   gradient_clip_norm |-> a.gradient_clip_norm,
   config |-> a.config]

\* The keyword arguments of super(DNNClassifier, self).__init__(...).
ClassifierInitKwargs(a) ==
  [model_dir |-> a.model_dir,
   n_classes |-> a.n_classes,
   weight_column_name |-> a.weight_column_name,
   dnn_feature_columns |-> a.feature_columns,
   dnn_optimizer |-> a.optimizer,
   dnn_hidden_units |-> a.hidden_units,
   dnn_activation_fn |-> a.activation_fn,
   dnn_dropout |-> a.dropout,
   gradient_clip_norm |-> a.gradient_clip_norm,
   config |-> a.config]

\* The keyword arguments of super(DNNRegressor, self).__init__(...).
RegressorInitKwargs(a) ==
  [model_dir |-> a.model_dir,
   weight_column_name |-> a.weight_column_name,
   dnn_feature_columns |-> a.feature_columns,
   dnn_optimizer |-> a.optimizer,
   dnn_hidden_units |-> a.hidden_units,
   dnn_activation_fn |-> a.activation_fn,
   dnn_dropout |-> a.dropout,
   gradient_clip_norm |-> a.gradient_clip_norm,
   config |-> a.config]

DNNClassifierInit(c, a, o, tr) ==
  ParentInit(SuperResolve(c, "DNNClassifier", "__init__"),
             ClassifierInitKwargs(a), o, tr)

DNNRegressorInit(c, a, o, tr) ==
  ParentInit(SuperResolve(c, "DNNRegressor", "__init__"),
             RegressorInitKwargs(a), o, tr)

\* DeprecatedMixin.__init__: log the deprecation notice, then hand the
\* arguments unchanged to the next __init__ of the MRO.
DeprecatedMixinInit(c, a, o, tr) ==
  LET k == SuperResolve(c, "DeprecatedMixin", "__init__")
      o1 == [o EXCEPT !.notices = @ + 1]
      tr1 == tr \o <<Ev("deprecation_notice", a.feature_columns)>>
  IN CASE k = "DNNClassifier" -> DNNClassifierInit(c, a, o1, tr1)
       [] k = "DNNRegressor" -> DNNRegressorInit(c, a, o1, tr1)
       [] OTHER -> Outcome([o1 EXCEPT !.pc = "rejected"], Err("TypeError"), tr1)

\* c(**a)
New(c, a) ==
  LET k == Resolve(c, "__init__")
  IN CASE k = "DeprecatedMixin" -> DeprecatedMixinInit(c, a, Unbuilt, <<>>)
       [] k = "DNNClassifier" -> DNNClassifierInit(c, a, Unbuilt, <<>>)
       [] k = "DNNRegressor" -> DNNRegressorInit(c, a, Unbuilt, <<>>)
       [] OTHER -> Outcome([Unbuilt EXCEPT !.pc = "rejected"], Err("TypeError"), <<>>)

\* The arguments a caller may give to class c, and c's non-deprecated name.
ArgsOf(c) ==
  IF c \in {"DNNClassifier", "TensorFlowDNNClassifier"}
  THEN ClassifierArgs ELSE RegressorArgs
Modern(c) ==
  CASE c = "TensorFlowDNNClassifier" -> "DNNClassifier"
    [] c = "TensorFlowDNNRegressor" -> "DNNRegressor"
    [] OTHER -> c
Deprecated(c) == Modern(c) # c

(***************************************************************************)
(* Training-op retrieval                                                   *)
(***************************************************************************)
\* layers.infer_real_valued_columns(features): one real valued column per key
\* of the mapping; a SparseTensor among the values is an error.
InferRealValuedColumns(features) ==
  IF \E k \in DOMAIN features : features[k] = "sparse"
  THEN [ok |-> FALSE, err |-> "ValueError", cols |-> NoCols]
  ELSE [ok |-> TRUE, err |-> None,
        cols |-> Cols({RealValuedColumn(k) : k \in DOMAIN features})]

\* The features the class docstrings require of the input: the weight column
\* and one feature per column, "otherwise there will be a KeyError".
MissingFeature(self, features) ==
  \/ self.weight_column_name # None
     /\ self.weight_column_name \notin DOMAIN features
  \/ \E col \in self.dnn_feature_columns.items : col.name \notin DOMAIN features

\* The parent builds ops from the feature columns it finds in the object.
ParentBuild(what, s, features, onNone, tr) ==
  LET seen == s.self.dnn_feature_columns
      r == IF seen.isNone
           THEN (IF onNone = "ok" THEN Ok(what) ELSE Err(onNone))
           ELSE IF MissingFeature(s.self, features) THEN Err("KeyError")
           ELSE Ok(what)
  IN Outcome(s, r, tr \o <<Ev("parent." \o what, seen)>>)

ParentGetTrainOps(s, features, targets, onNone, tr) ==
  ParentBuild("_get_train_ops", s, features, onNone, tr)

\* Variants of DNNClassifierGetTrainOps.
\* Inference on every call, whatever the field holds.
DNNClassifierGetTrainOpsAlways(s, features, targets, onNone) ==
  LET inf == InferRealValuedColumns(features)
      s1 == [s EXCEPT !.inferCalls = @ + 1]
      tr == <<Ev("infer_real_valued_columns", inf.cols)>>
  IN IF ~inf.ok
     THEN Outcome(s1, Err(inf.err), tr)
     ELSE ParentGetTrainOps(
            [s1 EXCEPT !.self.dnn_feature_columns = inf.cols,
                       !.fcWrites = @ + 1],
            features, targets, onNone, tr)
\* `if not self._dnn_feature_columns`: an empty collection counts as missing.
DNNClassifierGetTrainOpsFalsy(s, features, targets, onNone) ==
  IF s.self.dnn_feature_columns.isNone \/ s.self.dnn_feature_columns.items = {}
  THEN LET inf == InferRealValuedColumns(features)
           s1 == [s EXCEPT !.inferCalls = @ + 1]
           tr == <<Ev("infer_real_valued_columns", inf.cols)>>
       IN IF ~inf.ok
          THEN Outcome(s1, Err(inf.err), tr)
          ELSE ParentGetTrainOps(
                 [s1 EXCEPT !.self.dnn_feature_columns = inf.cols,
                            !.fcWrites = @ + 1],
                 features, targets, onNone, tr)
  ELSE ParentGetTrainOps(s, features, targets, onNone, <<>>)
\* The parent's ops are built first, the columns inferred afterwards.
DNNClassifierGetTrainOpsParentFirst(s, features, targets, onNone) ==
  LET r == ParentGetTrainOps(s, features, targets, onNone, <<>>)
  IN IF s.self.dnn_feature_columns.isNone
     THEN LET inf == InferRealValuedColumns(features)
              s1 == [s EXCEPT !.inferCalls = @ + 1]
              tr == r.trace \o <<Ev("infer_real_valued_columns", inf.cols)>>
          IN IF ~inf.ok
             THEN Outcome(s1, Err(inf.err), tr)
             ELSE Outcome([s1 EXCEPT !.self.dnn_feature_columns = inf.cols,
                                     !.fcWrites = @ + 1],
                          r.result, tr)
     ELSE r
\* Inference also resets the weight column name.
DNNClassifierGetTrainOpsClobber(s, features, targets, onNone) ==
  IF s.self.dnn_feature_columns.isNone
  THEN LET inf == InferRealValuedColumns(features)
           s1 == [s EXCEPT !.inferCalls = @ + 1]
           tr == <<Ev("infer_real_valued_columns", inf.cols)>>
       IN IF ~inf.ok
          THEN Outcome(s1, Err(inf.err), tr)
          ELSE ParentGetTrainOps(
                 [s1 EXCEPT !.self.dnn_feature_columns = inf.cols,
                            !.self.weight_column_name = None,
                            !.fcWrites = @ + 1],
                 features, targets, onNone, tr)
  ELSE ParentGetTrainOps(s, features, targets, onNone, <<>>)
\* A failed inference is swallowed: no columns, and on to the parent.
DNNClassifierGetTrainOpsSwallow(s, features, targets, onNone) ==
  IF s.self.dnn_feature_columns.isNone
  THEN LET inf == InferRealValuedColumns(features)
           s1 == [s EXCEPT !.inferCalls = @ + 1]
           tr == <<Ev("infer_real_valued_columns", inf.cols)>>
       IN ParentGetTrainOps(
            [s1 EXCEPT !.self.dnn_feature_columns =
                         IF inf.ok THEN inf.cols ELSE Cols({}),
                       !.fcWrites = @ + 1],
            features, targets, onNone, tr)
  ELSE ParentGetTrainOps(s, features, targets, onNone, <<>>)

DNNClassifierGetTrainOps(s, features, targets, onNone) ==
  IF s.self.dnn_feature_columns.isNone
  THEN LET inf == InferRealValuedColumns(features)
           s1 == [s EXCEPT !.inferCalls = @ + 1]
           tr == <<Ev("infer_real_valued_columns", inf.cols)>>
       IN IF ~inf.ok
          THEN Outcome(s1, Err(inf.err), tr)
          ELSE ParentGetTrainOps(
                 [s1 EXCEPT !.self.dnn_feature_columns = inf.cols,
                            !.fcWrites = @ + 1],
                 features, targets, onNone, tr)
  ELSE ParentGetTrainOps(s, features, targets, onNone, <<>>)

DNNRegressorGetTrainOps(s, features, targets, onNone) ==
  IF s.self.dnn_feature_columns.isNone
  THEN LET inf == InferRealValuedColumns(features)
           s1 == [s EXCEPT !.inferCalls = @ + 1]
           tr == <<Ev("infer_real_valued_columns", inf.cols)>>
       IN IF ~inf.ok
          THEN Outcome(s1, Err(inf.err), tr)
          ELSE ParentGetTrainOps(
                 [s1 EXCEPT !.self.dnn_feature_columns = inf.cols,
                            !.fcWrites = @ + 1],
                 features, targets, onNone, tr)
  ELSE ParentGetTrainOps(s, features, targets, onNone, <<>>)

\* self._get_train_ops(features, targets) on an object of class c.
CallGetTrainOps(c, s, features, targets, onNone) ==
  LET k == Resolve(c, "_get_train_ops")
  IN CASE k = "DNNClassifier" ->
            DNNClassifierGetTrainOps(s, features, targets, onNone)
       [] k = "DNNRegressor" ->
            DNNRegressorGetTrainOps(s, features, targets, onNone)
       [] OTHER -> ParentGetTrainOps(s, features, targets, onNone, <<>>)

\* fit: the parent asks the object for its training ops and, when it got
\* them, runs them; the trained parameters exist from then on.
CallFit(c, s, features, targets, onNone) ==
  LET r == CallGetTrainOps(c, s, features, targets, onNone)
  IN IF r.result.ok
     THEN Outcome([r.obj EXCEPT !.trained = TRUE], Ok("fitted"), r.trace)
     ELSE r

\* evaluate / predict: defined by the parent only.
CallEvaluate(c, s, features, onNone) ==
  ParentBuild("evaluate", s, features, onNone, <<>>)
CallPredict(c, s, features, onNone) ==
  ParentBuild("predict", s, features, onNone, <<>>)

(***************************************************************************)
(* Accessors                                                               *)
(***************************************************************************)
\* The parent's dnn_weights_ / dnn_bias_: the trained values, an error before
\* training.
ParentDnnWeights(s) ==
  Outcome(s, IF s.trained THEN Ok("dnn_weights_") ELSE Err("NotFittedError"),
          <<Ev("parent.dnn_weights_", s.self.dnn_feature_columns)>>)
ParentDnnBias(s) ==
  Outcome(s, IF s.trained THEN Ok("dnn_bias_") ELSE Err("NotFittedError"),
          <<Ev("parent.dnn_bias_", s.self.dnn_feature_columns)>>)

\* Variant of DNNClassifierWeights: the bias under the name of the weights.
DNNClassifierWeightsAsBias(s) == ParentDnnBias(s)
DNNClassifierWeights(s) == ParentDnnWeights(s)
DNNClassifierBias(s) == ParentDnnBias(s)
DNNRegressorWeights(s) == ParentDnnWeights(s)
DNNRegressorBias(s) == ParentDnnBias(s)

CallWeights(c, s) ==
  LET k == Resolve(c, "weights_")
  IN IF k = "DNNClassifier" THEN DNNClassifierWeights(s)
     ELSE DNNRegressorWeights(s)
CallBias(c, s) ==
  LET k == Resolve(c, "bias_")
  IN IF k = "DNNClassifier" THEN DNNClassifierBias(s)
     ELSE DNNRegressorBias(s)

(***************************************************************************)
(* The state machine                                                       *)
(***************************************************************************)
Init ==
  /\ cls = None
  /\ args = [unset |-> TRUE]
  /\ est = Unbuilt
  /\ ref = Unbuilt
  /\ input = NoFeatures
  /\ out = NoOutcome
  /\ refOut = NoOutcome
  /\ lastOp = "none"
  /\ nCalls = 0

\* Apply one operation to est and, as the non-deprecated class, to ref.
Apply(op, f, r, rr) ==
  /\ input' = f
  /\ est' = r.obj
  /\ ref' = rr.obj
  /\ out' = [result |-> r.result, trace |-> r.trace]
  /\ refOut' = [result |-> rr.result, trace |-> rr.trace]
  /\ lastOp' = op

ConstructWith(c, a) ==
  /\ est.pc = "start"
  /\ cls' = c
  /\ args' = a
  /\ Apply("__init__", NoFeatures, New(c, a), New(Modern(c), a))
  /\ UNCHANGED nCalls

\* Construction with any combination of arguments.
ConstructAny ==
  /\ est.pc = "start"
  /\ \E c \in Classes : \E a \in ArgsOf(c) : ConstructWith(c, a)

\* Construction with the pass-through arguments at one of the two profiles.
Construct ==
  /\ est.pc = "start"
  /\ \E c \in Classes : \E a \in ArgsOf(c) :
       /\ PassThrough(a) \in PassThroughProfiles
       /\ ConstructWith(c, a)

GetTrainOps ==
  /\ est.pc = "live"
  /\ nCalls < MaxCalls
  /\ \E f \in FeatureMappings, t \in TargetValues, n \in OutcomesFor(est) :
       Apply("_get_train_ops", f, CallGetTrainOps(cls, est, f, t, n),
             CallGetTrainOps(Modern(cls), ref, f, t, n))
  /\ nCalls' = nCalls + 1
  /\ UNCHANGED <<cls, args>>

Fit ==
  /\ est.pc = "live"
  /\ nCalls < MaxCalls
  /\ \E f \in FeatureMappings, t \in TargetValues, n \in OutcomesFor(est) :
       Apply("fit", f, CallFit(cls, est, f, t, n),
             CallFit(Modern(cls), ref, f, t, n))
  /\ nCalls' = nCalls + 1
  /\ UNCHANGED <<cls, args>>

Evaluate ==
  /\ est.pc = "live"
  /\ Resolve(cls, "evaluate") \in ParentClasses
  /\ \E f \in FeatureMappings, n \in OutcomesFor(est) :
       Apply("evaluate", f, CallEvaluate(cls, est, f, n),
             CallEvaluate(Modern(cls), ref, f, n))
  /\ UNCHANGED <<cls, args, nCalls>>

Predict ==
  /\ est.pc = "live"
  /\ Resolve(cls, "predict") \in ParentClasses
  /\ \E f \in FeatureMappings, n \in OutcomesFor(est) :
       Apply("predict", f, CallPredict(cls, est, f, n),
             CallPredict(Modern(cls), ref, f, n))
  /\ UNCHANGED <<cls, args, nCalls>>

ReadWeights ==
  /\ est.pc = "live"
  /\ Apply("weights_", NoFeatures, CallWeights(cls, est), CallWeights(Modern(cls), ref))
  /\ UNCHANGED <<cls, args, nCalls>>

ReadBias ==
  /\ est.pc = "live"
  /\ Apply("bias_", NoFeatures, CallBias(cls, est), CallBias(Modern(cls), ref))
  /\ UNCHANGED <<cls, args, nCalls>>

Next ==
  \/ Construct
  \/ GetTrainOps
  \/ Fit
  \/ Evaluate
  \/ Predict
  \/ ReadWeights
  \/ ReadBias

Spec == Init /\ [][Next]_vars

\* Construction alone, over every combination of arguments.
NextNew == ConstructAny
SpecNew == Init /\ [][NextNew]_vars

(***************************************************************************)
(* Properties                                                              *)
(***************************************************************************)
ClassifierClasses == {"DNNClassifier", "TensorFlowDNNClassifier"}
TrainOps == {"_get_train_ops", "fit"}
ClassifierKeys ==
  {"model_dir", "n_classes", "weight_column_name", "dnn_feature_columns",
   "dnn_optimizer", "dnn_hidden_units", "dnn_activation_fn", "dnn_dropout",
   "gradient_clip_norm", "config"}
RegressorKeys == ClassifierKeys \ {"n_classes"}
Built == est.pc # "start"
Live == est.pc = "live"
\* Constructed without feature columns / with an explicit collection.
Lazy == Live /\ args.feature_columns.isNone
Explicit == Live /\ ~args.feature_columns.isNone
\* The hyperparameters other than the feature column field.
Hyper(s) == [s EXCEPT !.dnn_feature_columns = NoCols]
\* The events of a trace that are the parent's training-op construction.
ParentTrainEvents(tr) ==
  {i \in DOMAIN tr : tr[i].ev = "parent._get_train_ops"}
InferEvents(tr) ==
  {i \in DOMAIN tr : tr[i].ev = "infer_real_valued_columns"}

\* C1: constructing DNNClassifier or DNNRegressor (under either name) hands
\* the parent's __init__ exactly the values passed in, under the keys
\* dnn_hidden_units, dnn_feature_columns, dnn_optimizer, dnn_activation_fn,
\* dnn_dropout, model_dir, weight_column_name, gradient_clip_norm, config, and
\* n_classes for the classifier only: nothing altered, swapped or dropped, and
\* the regressor passes no class count.
C1_PassThrough ==
  Built =>
    /\ est.kwargs.dnn_hidden_units = args.hidden_units
    /\ est.kwargs.dnn_feature_columns = args.feature_columns
    /\ est.kwargs.dnn_optimizer = args.optimizer
    /\ est.kwargs.dnn_activation_fn = args.activation_fn
    /\ est.kwargs.dnn_dropout = args.dropout
    /\ est.kwargs.model_dir = args.model_dir
    /\ est.kwargs.weight_column_name = args.weight_column_name
    /\ est.kwargs.gradient_clip_norm = args.gradient_clip_norm
    /\ est.kwargs.config = args.config
    /\ IF cls \in ClassifierClasses
       THEN /\ DOMAIN est.kwargs = ClassifierKeys
            /\ est.kwargs.n_classes = args.n_classes
       ELSE DOMAIN est.kwargs = RegressorKeys
C1_Witness ==
  /\ Live
  /\ cls = "DNNClassifier"
  /\ est.kwargs.n_classes = 3
  /\ est.kwargs.dnn_optimizer = "Adagrad"
  /\ est.kwargs.dnn_activation_fn = None
  /\ est.kwargs.dnn_dropout = "0.5"
  /\ est.kwargs.dnn_hidden_units = <<1024, 512, 256>>
  /\ est.kwargs.dnn_feature_columns = Cols({RealValuedColumn("a")})

\* C2 as stated: on a facade constructed without feature columns, once a
\* _get_train_ops call has been made the field has been written exactly once,
\* by the first call.
C2_WrittenByFirstCall ==
  (Lazy /\ nCalls >= 1) => (est.fcWrites = 1 /\ ~est.self.dnn_feature_columns.isNone)
\* C2, amended: on a facade constructed without feature columns the field is
\* written at most once, by the first _get_train_ops call whose column
\* inference succeeds, with the collection that call inferred; every later
\* call leaves the field as it is and does not invoke column inference again.
C2_WrittenOnce ==
  [][Lazy =>
       /\ est'.fcWrites <= 1
       /\ (est.self.dnn_feature_columns.isNone /\ lastOp' \in TrainOps
           /\ nCalls' = nCalls + 1 /\ InferRealValuedColumns(input').ok)
          => /\ est'.fcWrites = 1
             /\ est'.self.dnn_feature_columns = InferRealValuedColumns(input').cols
       /\ ~est.self.dnn_feature_columns.isNone
          => /\ est'.self.dnn_feature_columns = est.self.dnn_feature_columns
             /\ est'.inferCalls = est.inferCalls
             /\ est'.fcWrites = est.fcWrites]_vars
C2_Witness ==
  /\ Lazy
  /\ nCalls = 3
  /\ est.inferCalls = 2
  /\ est.fcWrites = 1
  /\ lastOp = "_get_train_ops"
  /\ est.self.dnn_feature_columns = Cols({RealValuedColumn("a")})
  /\ DOMAIN input = {"a", "w"}

\* C3: on a facade constructed with an explicit feature column collection no
\* _get_train_ops call invokes column inference or changes the field, and the
\* parent's training-op construction sees the collection given at
\* construction.
C3_ExplicitColumnsKept ==
  Explicit =>
    /\ est.self.dnn_feature_columns = args.feature_columns
    /\ est.inferCalls = 0
    /\ est.fcWrites = 0
    /\ lastOp \in TrainOps =>
         /\ InferEvents(out.trace) = {}
         /\ ParentTrainEvents(out.trace) # {}
         /\ \A i \in ParentTrainEvents(out.trace) :
              out.trace[i].cols = args.feature_columns
C3_Witness ==
  /\ Explicit
  /\ args.feature_columns = Cols({})
  /\ nCalls = 2
  /\ lastOp = "_get_train_ops"
  /\ DOMAIN input = {"a"}
  /\ out.result.ok

\* C4: a _get_train_ops call on a facade whose feature column field is None
\* infers the columns before the parent's training-op construction runs: the
\* parent never sees None, and what it sees is one real valued column for
\* each key of the input mapping and nothing else.
C4_InferBeforeParent ==
  [][(Live /\ est.self.dnn_feature_columns.isNone /\ lastOp' \in TrainOps
      /\ nCalls' = nCalls + 1)
     => \A i \in ParentTrainEvents(out'.trace) :
          /\ \E j \in InferEvents(out'.trace) : j < i
          /\ ~out'.trace[i].cols.isNone
          /\ out'.trace[i].cols.items =
               {RealValuedColumn(k) : k \in DOMAIN input'}]_vars
C4_Witness ==
  /\ Lazy
  /\ nCalls = 1
  /\ lastOp = "fit"
  /\ DOMAIN input = {"a", "w"}
  /\ Len(out.trace) = 2
  /\ out.trace[1].ev = "infer_real_valued_columns"
  /\ out.trace[2] =
       Ev("parent._get_train_ops",
          Cols({RealValuedColumn("a"), RealValuedColumn("w")}))

\* C5: once the object is constructed, no operation changes a hyperparameter
\* other than the feature column field.
C5_HyperparametersFrozen ==
  [][Live => Hyper(est'.self) = Hyper(est.self)]_vars
C5_Witness ==
  /\ Lazy
  /\ est.fcWrites = 1
  /\ lastOp = "bias_"
  /\ est.self.weight_column_name = "w"
  /\ est.self.dnn_optimizer = "Adagrad"
  /\ Hyper(est.self) = Hyper(est.kwargs)

\* C6: constructing a classifier with a class count of 1 or less ends in an
\* error and leaves no usable object.
C6_SingleClassRejected ==
  (Built /\ cls \in ClassifierClasses /\ args.n_classes <= 1) =>
    (est.pc = "rejected" /\ ~out.result.ok)
C6_Witness ==
  /\ cls = "DNNClassifier"
  /\ args.n_classes = 1
  /\ est.pc = "rejected"
  /\ out.result = Err("ValueError")

\* C7: an object of a deprecated class goes through the same states and
\* returns the same results as an object of the class it stands for, given
\* the same arguments and operations; it differs by one deprecation notice,
\* logged during construction before anything else, which does not fail it.
C7_DeprecatedEquivalent ==
  (Built /\ Deprecated(cls)) =>
    /\ est.pc = ref.pc
    /\ est.kwargs = ref.kwargs
    /\ est.self = ref.self
    /\ est.trained = ref.trained
    /\ est.inferCalls = ref.inferCalls
    /\ est.fcWrites = ref.fcWrites
    /\ out.result = refOut.result
    /\ est.notices = 1
    /\ ref.notices = 0
    /\ lastOp = "__init__" =>
         out.trace = <<Ev("deprecation_notice", args.feature_columns)>> \o refOut.trace
    /\ lastOp # "__init__" => out.trace = refOut.trace
C7_Witness ==
  /\ cls = "TensorFlowDNNClassifier"
  /\ Lazy
  /\ lastOp = "fit"
  /\ out.result = Ok("fitted")
  /\ est.fcWrites = 1
  /\ est.notices = 1
  /\ nCalls = 2

\* C8: weights_ returns the parent's dnn_weights_ and bias_ the parent's
\* dnn_bias_, neither changes the object, and before training both fail.
C8_Accessors ==
  [][/\ lastOp' = "weights_" =>
          /\ est' = est
          /\ out'.trace = <<Ev("parent.dnn_weights_", est.self.dnn_feature_columns)>>
          /\ out'.result = IF est.trained THEN Ok("dnn_weights_")
                           ELSE Err("NotFittedError")
     /\ lastOp' = "bias_" =>
          /\ est' = est
          /\ out'.trace = <<Ev("parent.dnn_bias_", est.self.dnn_feature_columns)>>
          /\ out'.result = IF est.trained THEN Ok("dnn_bias_")
                           ELSE Err("NotFittedError")]_vars
C8_Witness ==
  /\ cls = "DNNClassifier"
  /\ lastOp = "weights_"
  /\ est.trained
  /\ out.result = Ok("dnn_weights_")

\* C9: _get_train_ops lets errors through as they are.  When column inference
\* fails the caller gets that error, the parent is not invoked and the field
\* stays None, so that the next call infers again; when the parent's
\* training-op construction fails the caller gets that error and the inferred
\* columns stay in the field.
C9_ErrorsPropagate ==
  [][(Live /\ est.self.dnn_feature_columns.isNone /\ lastOp' \in TrainOps
      /\ nCalls' = nCalls + 1)
     => LET inf == InferRealValuedColumns(input')
            kept == [est.self EXCEPT !.dnn_feature_columns = inf.cols]
        IN /\ est'.inferCalls = est.inferCalls + 1
           /\ ~inf.ok =>
                /\ out'.result = Err(inf.err)
                /\ ParentTrainEvents(out'.trace) = {}
                /\ est'.self.dnn_feature_columns.isNone
                /\ est'.fcWrites = est.fcWrites
           /\ (inf.ok /\ MissingFeature(kept, input')) =>
                /\ out'.result = Err("KeyError")
                /\ ParentTrainEvents(out'.trace) # {}
                /\ est'.self.dnn_feature_columns = inf.cols
                /\ ~est'.trained]_vars
C9_Witness ==
  /\ Lazy
  /\ nCalls = 1
  /\ lastOp = "_get_train_ops"
  /\ out.result = Err("KeyError")
  /\ est.fcWrites = 1
  /\ est.self.dnn_feature_columns = Cols({RealValuedColumn("a")})

\* C10: on a facade constructed without feature columns the field is None
\* until the first _get_train_ops call, whatever else ran before: evaluate and
\* predict before any fit reach the parent with no feature columns.
C10_OnlyTrainingInfers ==
  (Lazy /\ nCalls = 0) =>
    /\ est.self.dnn_feature_columns.isNone
    /\ lastOp \in {"evaluate", "predict"} =>
         \A i \in DOMAIN out.trace : out.trace[i].cols.isNone
C10_Witness ==
  /\ Lazy
  /\ nCalls = 0
  /\ lastOp = "predict"
  /\ DOMAIN input = {"a"}
  /\ out.trace = <<Ev("parent.predict", NoCols)>>
====
